---- MODULE Spec2Model ----
(***************************************************************************)
(* ODIE, the Offline Disaster Intelligence Engine: the selection/history   *)
(* engine (engine.py), the indices (indices.py), the list primitives       *)
(* (dsa.py) and the query language (query_lang.py).                        *)
(*                                                                         *)
(* Python values are modelled as follows.                                  *)
(*   - A list is a sequence; Python index i is TLA+ index i + 1.           *)
(*   - A dict is a function whose DOMAIN is the set of keys present.       *)
(*   - A value that may be an int, a str or None (an optional field, the   *)
(*     literal of a comparison) is a record [t, n, s] with t the type tag. *)
(*   - A call that raises is a result whose status names the exception.    *)
(***************************************************************************)
EXTENDS Integers, Sequences, FiniteSets, TLC

(* ------------------------------ bounds --------------------------------- *)

\* Largest number of records in a dataset.
MaxEvents == 3

\* Largest depth of the undo stack a mutating operation may still push on.
MaxHist == 2

\* Largest k topk is called with.
MaxK == 2

\* The longest list handed to a sort, and the size of the universe of IDs of
\* the lists handed to the set primitives.
MaxLen == 4

(* --------------------------- Python values ----------------------------- *)

IntV(i) == [t |-> "int", n |-> i, s |-> ""]
StrV(x) == [t |-> "str", n |-> 0, s |-> x]
NoneV == [t |-> "none", n |-> 0, s |-> ""]

\* Python's a == b on ints, strs and None: values of different types differ.
PyEq(a, b) == a.t = b.t /\ a.n = b.n /\ a.s = b.s

\* The strings of the model, in Python's (code point) order.
StrOrder == <<"", "A", "B", "D", "F", "G", "Q", "Z", "a", "b", "f", "z">>

StrRank(x) == CHOOSE i \in 1..Len(StrOrder) : StrOrder[i] = x

\* Python's a < b: defined on two ints and on two strs, TypeError otherwise.
PyLtDefined(a, b) == a.t = b.t /\ a.t \in {"int", "str"}

PyLt(a, b) == IF a.t = "int" THEN a.n < b.n ELSE StrRank(a.s) < StrRank(b.s)

\* sorted(xs) / list.sort() on a list of ints.
RECURSIVE InsertSorted(_, _)
InsertSorted(x, s) ==
    IF s = <<>> THEN <<x>>
    ELSE IF x <= Head(s) THEN <<x>> \o s
    ELSE <<Head(s)>> \o InsertSorted(x, Tail(s))

RECURSIVE sorted(_)
sorted(xs) == IF xs = <<>> THEN <<>> ELSE InsertSorted(Head(xs), sorted(Tail(xs)))

\* d.get(k, []) on a dict of lists.
Get(d, k) == IF k \in DOMAIN d THEN d[k] ELSE <<>>

Range(s) == {s[i] : i \in 1..Len(s)}

\* list(range(n))
ListRange(n) == [i \in 1..n |-> i - 1]

(* ------------------------------ models.py ------------------------------ *)

\* The records a dataset is drawn from (DisasterEvent without its event_id,
\* which the loader assigns as the row position).  Optional fields are absent
\* (None) in some records and present in others.
Row(country, dtype, year, month, deaths) ==
    [dis_no |-> "D", country |-> country, disaster_type |-> dtype,
     disaster_subtype |-> "G", start_year |-> year, start_month |-> month,
     start_day |-> NoneV, end_year |-> IntV(year), end_month |-> month,
     end_day |-> NoneV, total_deaths |-> deaths, total_affected |-> deaths,
     total_damage_adj_usd |-> NoneV]

\* Five synthetic rows with known country / type / year / deaths values.
Fixture ==
    << Row("A", "F", 2000, NoneV, NoneV),
       Row("A", "Q", 2001, IntV(6), IntV(10)),
       Row("B", "F", 2001, IntV(6), NoneV),
       Row("B", "Q", 2003, NoneV, IntV(20)),
       Row("A", "F", 2003, IntV(6), IntV(10)) >>

\* The rows the datasets of the evaluator's checks are made of.
RecordPool == {Fixture[i] : i \in 1..4}

DisasterEvent(i, r) == [event_id |-> i] @@ r

\* start_date_key:  x or 1  is 1 when x is None or 0.
OrOne(x) == IF x.t = "none" \/ x.n = 0 THEN 1 ELSE x.n

start_date_key(e) == e.start_year * 10000 + OrOne(e.start_month) * 100 + OrOne(e.start_day)

\* The datasets the loader can hand to the engine: event_id is the 0-based row.
Loaded(rows) == [i \in 1..Len(rows) |-> DisasterEvent(i - 1, rows[i])]

\* Every dataset of at most MaxEvents distinct rows of the pool, in any order.
Datasets ==
    UNION { { Loaded(rows) : rows \in { f \in [1..n -> RecordPool] :
                                         \A i, j \in 1..n : f[i] = f[j] => i = j } } :
            n \in 0..MaxEvents }

\* The first n rows of the fixture, for n up to MaxEvents.
FixtureDatasets ==
    { Loaded(SubSeq(Fixture, 1, n)) : n \in 0..(IF MaxEvents < Len(Fixture) THEN MaxEvents ELSE Len(Fixture)) }

(* ------------------------------- dsa.py -------------------------------- *)

\* The two-pointer loop advancing both pointers on a mismatch.
RECURSIVE intersect_loop_lockstep(_, _, _, _, _)
intersect_loop_lockstep(a, b, i, j, out) ==
    IF i < Len(a) /\ j < Len(b)
    THEN IF a[i + 1] = b[j + 1]
         THEN intersect_loop_lockstep(a, b, i + 1, j + 1, Append(out, a[i + 1]))
         ELSE intersect_loop_lockstep(a, b, i + 1, j + 1, out)
    ELSE out

RECURSIVE intersect_loop(_, _, _, _, _)
intersect_loop(a, b, i, j, out) ==
    IF i < Len(a) /\ j < Len(b)
    THEN IF a[i + 1] = b[j + 1]
         THEN intersect_loop(a, b, i + 1, j + 1, Append(out, a[i + 1]))
         ELSE IF a[i + 1] < b[j + 1]
              THEN intersect_loop(a, b, i + 1, j, out)
              ELSE intersect_loop(a, b, i, j + 1, out)
    ELSE out

\* The two-pointer loop stopping one element early in a.
RECURSIVE intersect_loop_short(_, _, _, _, _)
intersect_loop_short(a, b, i, j, out) ==
    IF i < Len(a) - 1 /\ j < Len(b)
    THEN IF a[i + 1] = b[j + 1]
         THEN intersect_loop_short(a, b, i + 1, j + 1, Append(out, a[i + 1]))
         ELSE IF a[i + 1] < b[j + 1]
              THEN intersect_loop_short(a, b, i + 1, j, out)
              ELSE intersect_loop_short(a, b, i, j + 1, out)
    ELSE out

intersect_sorted_short(a, b) == intersect_loop_short(a, b, 0, 0, <<>>)

intersect_sorted(a, b) == intersect_loop(a, b, 0, 0, <<>>)

\* merge_sort / quick_sort take the list and the key of each element (a
\* function on the elements).
RECURSIVE merge_loop(_, _, _, _, _, _, _)
merge_loop(left, right, i, j, out, key, reverse) ==
    IF i < Len(left) /\ j < Len(right)
    THEN LET a == key[left[i + 1]]
             b == key[right[j + 1]]
             take_left == IF reverse THEN a > b ELSE a <= b
         IN  IF take_left
             THEN merge_loop(left, right, i + 1, j, Append(out, left[i + 1]), key, reverse)
             ELSE merge_loop(left, right, i, j + 1, Append(out, right[j + 1]), key, reverse)
    ELSE out \o SubSeq(left, i + 1, Len(left)) \o SubSeq(right, j + 1, Len(right))

_merge(left, right, key, reverse) == merge_loop(left, right, 0, 0, <<>>, key, reverse)

RECURSIVE merge_sort(_, _, _)
merge_sort(arr, key, reverse) ==
    IF Len(arr) <= 1 THEN arr
    ELSE LET mid == Len(arr) \div 2
             left == merge_sort(SubSeq(arr, 1, mid), key, reverse)
             right == merge_sort(SubSeq(arr, mid + 1, Len(arr)), key, reverse)
         IN  _merge(left, right, key, reverse)

\* a[i], a[j] = a[j], a[i]
Swap(a, i, j) == [a EXCEPT ![i + 1] = a[j + 1], ![j + 1] = a[i + 1]]

\* for j in range(lo, hi): the list and i after the loop.
RECURSIVE partition_loop(_, _, _, _, _, _, _)
partition_loop(a, hi, j, i, pivot, key, reverse) ==
    IF j >= hi THEN [a |-> a, i |-> i]
    ELSE LET v == key[a[j + 1]]
             cond == IF reverse THEN v >= pivot ELSE v <= pivot
         IN  IF cond
             THEN partition_loop(Swap(a, i, j), hi, j + 1, i + 1, pivot, key, reverse)
             ELSE partition_loop(a, hi, j + 1, i, pivot, key, reverse)

\* _partition without its last swap: the pivot stays at hi.
_partition_pivot_unplaced(a, lo, hi, key, reverse) ==
    LET r == partition_loop(a, hi, lo, lo, key[a[hi + 1]], key, reverse)
    IN  [a |-> r.a, p |-> r.i]

\* _partition with  return i + 1 : the index after the pivot's.
_partition_returns_next(a, lo, hi, key, reverse) ==
    LET r == partition_loop(a, hi, lo, lo, key[a[hi + 1]], key, reverse)
    IN  [a |-> Swap(r.a, r.i, hi), p |-> r.i + 1]

\* _partition: the list after partitioning, and the pivot's index p.
_partition(a, lo, hi, key, reverse) ==
    LET r == partition_loop(a, hi, lo, lo, key[a[hi + 1]], key, reverse)
    IN  [a |-> Swap(r.a, r.i, hi), p |-> r.i]

RECURSIVE _quick_sort_inplace(_, _, _, _, _)
_quick_sort_inplace(a, lo, hi, key, reverse) ==
    IF lo >= hi THEN a
    ELSE LET r == _partition(a, lo, hi, key, reverse)
             a1 == _quick_sort_inplace(r.a, lo, r.p - 1, key, reverse)
         IN  _quick_sort_inplace(a1, r.p + 1, hi, key, reverse)

quick_sort(arr, key, reverse) == _quick_sort_inplace(arr, 0, Len(arr) - 1, key, reverse)

(* ----------------------------- indices.py ------------------------------ *)

\* sorted(keys) on a set of ints (the keys of a dict).
RECURSIVE SortedOfSet(_)
SortedOfSet(S) ==
    IF S = {} THEN <<>>
    ELSE LET m == CHOOSE x \in S : \A y \in S : x <= y
         IN  <<m>> \o SortedOfSet(S \ {m})

\* The bucket of key k without d[k].sort(): the event_ids in dataset order.
BucketIdsUnsorted(evs, fld, k) ==
    LET hits == SelectSeq(evs, LAMBDA e : e[fld] = k)
    IN  [i \in 1..Len(hits) |-> hits[i].event_id]

\* The bucket of key k: the event_ids appended in dataset order, then sorted.
BucketIds(evs, fld, k) ==
    LET hits == SelectSeq(evs, LAMBDA e : e[fld] = k)
    IN  sorted([i \in 1..Len(hits) |-> hits[i].event_id])

build_indices(evs) ==
    LET keys(fld) == {evs[i][fld] : i \in 1..Len(evs)}
        by_country == [k \in keys("country") |-> BucketIds(evs, "country", k)]
        by_type == [k \in keys("disaster_type") |-> BucketIds(evs, "disaster_type", k)]
        year_to_ids == [k \in keys("start_year") |-> BucketIds(evs, "start_year", k)]
    IN  [by_country |-> by_country, by_type |-> by_type,
         year_to_ids |-> year_to_ids,
         years_sorted |-> SortedOfSet(DOMAIN year_to_ids)]

\* bisect.bisect_left(a, x) on a sorted list: the number of elements < x.
bisect_left(a, x) == Cardinality({i \in 1..Len(a) : a[i] < x})

\* bisect.bisect_right(a, x) on a sorted list: the number of elements <= x.
bisect_right(a, x) == Cardinality({i \in 1..Len(a) : a[i] <= x})

\* out.extend(...) over the years of a slice, in order.
RECURSIVE ExtendBuckets(_, _)
ExtendBuckets(d, ys) ==
    IF ys = <<>> THEN <<>> ELSE Get(d, Head(ys)) \o ExtendBuckets(d, Tail(ys))

\* a[lo:hi] for 0 <= lo, hi <= len(a).
Slice(a, lo, hi) == SubSeq(a, lo + 1, hi)

\* year_range_ids with bisect_left for the upper end: y2 itself is left out.
year_range_ids_open(ix, y1, y2) ==
    LET lo == bisect_left(ix.years_sorted, y1)
        hi == bisect_left(ix.years_sorted, y2)
    IN  sorted(ExtendBuckets(ix.year_to_ids, Slice(ix.years_sorted, lo, hi)))

year_range_ids(ix, y1, y2) ==
    LET lo == bisect_left(ix.years_sorted, y1)
        hi == bisect_right(ix.years_sorted, y2)
    IN  sorted(ExtendBuckets(ix.year_to_ids, Slice(ix.years_sorted, lo, hi)))

(* ---------------------------- query_lang.py --------------------------- *)

\* An expression string is modelled as the sequence of its lexemes, each
\* classified by the alternative of _TOKEN_RE that matches at its position;
\* kind "BAD" marks a position where no alternative matches.  A NUMBER
\* carries the integer its digits denote in num, a STRING its text without
\* the quotes in value.
Tok(kind, value, num) == [kind |-> kind, value |-> value, num |-> num]

\* Token.value of a keyword, whatever its case in the input.
KwNorm(v) ==
    CASE v \in {"and", "AND", "And"} -> "AND"
      [] v \in {"or", "OR", "Or"} -> "OR"
      [] OTHER -> "contains"

\* tokenize: the tokens of the lexemes, or a ParseError at the first BAD one.
tokenize(s) ==
    IF \E i \in 1..Len(s) : s[i].kind = "BAD"
    THEN [err |-> TRUE, toks |-> <<>>]
    ELSE [err |-> FALSE,
          toks |-> [i \in 1..Len(s) |->
                      IF s[i].kind = "KW"
                      THEN IF KwNorm(s[i].value) \in {"AND", "OR"}
                           THEN Tok(KwNorm(s[i].value), KwNorm(s[i].value), 0)
                           ELSE Tok("CONTAINS", "contains", 0)
                      ELSE s[i]]]

\* AST nodes
And(left, right) == [kind |-> "And", left |-> left, right |-> right]

Or(left, right) == [kind |-> "Or", left |-> left, right |-> right]

Cmp(field, op, value) == [kind |-> "Cmp", field |-> field, op |-> op, value |-> value]

\* A parser method's outcome: the node built and the parser's position i,
\* or a ParseError.
ParseError == [err |-> TRUE, node |-> <<>>, i |-> 0]

Parsed(node, i) == [err |-> FALSE, node |-> node, i |-> i]

at_end(toks, i) == i >= Len(toks)

peek(toks, i) == toks[i + 1]

\* take(kind) succeeds iff the next token is of that kind.
CanTake(toks, i, kind) == ~at_end(toks, i) /\ peek(toks, i).kind = kind

\* match(*kinds) consumes the next token iff it is of one of the kinds.
Matches(toks, i, kinds) == ~at_end(toks, i) /\ peek(toks, i).kind \in kinds

_coerce_value(tok) ==
    IF tok.kind = "NUMBER" THEN IntV(tok.num) ELSE StrV(tok.value)

parse_comparison(toks, i) ==
    IF ~CanTake(toks, i, "IDENT") THEN ParseError
    ELSE LET field == peek(toks, i).value
             isContains == Matches(toks, i + 1, {"CONTAINS"})
         IN  IF ~isContains /\ ~CanTake(toks, i + 1, "OP") THEN ParseError
             ELSE LET op == IF isContains THEN "contains" ELSE peek(toks, i + 1).value
                  IN  IF ~Matches(toks, i + 2, {"NUMBER", "STRING", "IDENT"})
                      THEN ParseError
                      ELSE Parsed(Cmp(field, op, _coerce_value(peek(toks, i + 2))), i + 3)

RECURSIVE parse_expr(_, _)
RECURSIVE expr_loop(_, _, _)
RECURSIVE parse_term(_, _)
RECURSIVE term_loop(_, _, _)
RECURSIVE parse_factor(_, _)

parse_factor(toks, i) ==
    IF Matches(toks, i, {"LPAREN"})
    THEN LET r == parse_expr(toks, i + 1)
         IN  IF r.err THEN ParseError
             ELSE IF ~CanTake(toks, r.i, "RPAREN") THEN ParseError
             ELSE Parsed(r.node, r.i + 1)
    ELSE parse_comparison(toks, i)

\* The AND loop taking a whole term as right operand: a AND b AND c groups
\* to the right.
term_loop_right_assoc(toks, node, i) ==
    IF Matches(toks, i, {"AND"})
    THEN LET r == parse_term(toks, i + 1)
         IN  IF r.err THEN ParseError ELSE Parsed(And(node, r.node), r.i)
    ELSE Parsed(node, i)

\* while self.match("AND"): rhs = self.parse_factor(); node = And(node, rhs)
term_loop(toks, node, i) ==
    IF Matches(toks, i, {"AND"})
    THEN LET r == parse_factor(toks, i + 1)
         IN  IF r.err THEN ParseError ELSE term_loop(toks, And(node, r.node), r.i)
    ELSE Parsed(node, i)

parse_term(toks, i) ==
    LET r == parse_factor(toks, i)
    IN  IF r.err THEN ParseError ELSE term_loop(toks, r.node, r.i)

\* while self.match("OR"): rhs = self.parse_term(); node = Or(node, rhs)
expr_loop(toks, node, i) ==
    IF Matches(toks, i, {"OR"})
    THEN LET r == parse_term(toks, i + 1)
         IN  IF r.err THEN ParseError ELSE expr_loop(toks, Or(node, r.node), r.i)
    ELSE Parsed(node, i)

parse_expr(toks, i) ==
    LET r == parse_term(toks, i)
    IN  IF r.err THEN ParseError ELSE expr_loop(toks, r.node, r.i)

\* parse without its at_end check: what follows a complete expression is ignored.
parse_ignores_rest(expr) ==
    LET t == tokenize(expr)
    IN  IF t.err THEN ParseError ELSE parse_expr(t.toks, 0)

parse(expr) ==
    LET t == tokenize(expr)
    IN  IF t.err THEN ParseError
        ELSE LET r == parse_expr(t.toks, 0)
             IN  IF r.err THEN ParseError
                 ELSE IF ~at_end(t.toks, r.i) THEN ParseError
                 ELSE r

(* ------------------------ engine.py: the state ------------------------- *)

VARIABLES events, idx, active_ids, last_sort, _undo, _redo, call, chain, probe

vars == <<events, idx, active_ids, last_sort, _undo, _redo, call, chain, probe>>

(* ------------------------ engine.py: evaluation ------------------------ *)

\* str.lower() on the field names and literals of the model.
Lower(x) ==
    CASE x = "Year" -> "year"
      [] x = "Country" -> "country"
      [] x = "A" -> "a"
      [] x = "B" -> "b"
      [] x = "D" -> "d"
      [] x = "F" -> "f"
      [] x = "G" -> "g"
      [] x = "Q" -> "q"
      [] x = "Z" -> "z"
      [] x = "N" -> "n"
      [] OTHER -> x

\* The characters of a model string: the strings of the model other than
\* field names have at most one character.
Chars(x) == IF x = "" THEN <<>> ELSE <<x>>

RECURSIVE Digits(_)
Digits(n) == IF n < 10 THEN <<ToString(n)>> ELSE Append(Digits(n \div 10), ToString(n % 10))

\* str(v).lower(), as a sequence of characters.
StrLowerChars(v) ==
    CASE v.t = "str" -> [i \in 1..Len(Chars(v.s)) |-> Lower(Chars(v.s)[i])]
      [] v.t = "int" -> IF v.n < 0 THEN <<"-">> \o Digits(-v.n) ELSE Digits(v.n)
      [] OTHER -> <<"n", "o", "n", "e">>

\* Python's  a in b  on strings.
IsSubstring(a, b) ==
    \E k \in 0..(Len(b) - Len(a)) : SubSeq(b, k + 1, k + Len(a)) = a

\* str(v) for a literal.
Str(v) == IF v.t = "str" THEN v.s ELSE ToString(v.n)

\* int(v) raises ValueError on a str that is no number (no model string is).
IntDefined(v) == v.t = "int"

\* A field that is None reads as the sentinel.
OrSentinel(x) == IF x.t # "none" THEN x ELSE IntV(-1)

\* getattr(e, fname, None)
Getattr(e, fname) ==
    CASE fname \in {"country", "disaster_type", "disaster_subtype", "dis_no"} -> StrV(e[fname])
      [] fname \in {"event_id", "start_year"} -> IntV(e[fname])
      [] fname \in {"start_month", "start_day", "end_year", "end_month", "end_day",
                    "total_deaths", "total_affected", "total_damage_adj_usd"} -> e[fname]
      [] OTHER -> NoneV

\* _make_predicate.get: the value of the field named by the comparison.
get(e, field) ==
    LET fname == Lower(field)
    IN  CASE fname = "country" -> StrV(e.country)
          [] fname \in {"type", "disaster_type"} -> StrV(e.disaster_type)
          [] fname \in {"subtype", "disaster_subtype"} -> StrV(e.disaster_subtype)
          [] fname \in {"start_year", "year"} -> IntV(e.start_year)
          [] fname \in {"total_deaths", "deaths"} -> OrSentinel(e.total_deaths)
          [] fname \in {"total_affected", "affected"} -> OrSentinel(e.total_affected)
          [] fname \in {"damage", "total_damage_adj_usd", "damages"} ->
                OrSentinel(e.total_damage_adj_usd)
          [] fname \in {"dis_no", "disno"} -> StrV(e.dis_no)
          [] OTHER -> Getattr(e, fname)

Ops == {"==", "!=", ">=", "<=", ">", "<", "contains"}

\* Whether the predicate of cmp raises (TypeError) on record e.
PredRaises(cmp, e) ==
    /\ cmp.op \in {">=", "<=", ">", "<"}
    /\ ~PyLtDefined(get(e, cmp.field), cmp.value)

\* The predicate of cmp on record e, where it does not raise.
Pred(cmp, e) ==
    LET g == get(e, cmp.field)
        val == cmp.value
    IN  CASE cmp.op = "contains" -> IsSubstring(StrLowerChars(val), StrLowerChars(g))
          [] cmp.op = "==" -> PyEq(g, val)
          [] cmp.op = "!=" -> ~PyEq(g, val)
          [] cmp.op = ">=" -> ~PyLt(g, val)
          [] cmp.op = "<=" -> ~PyLt(val, g)
          [] cmp.op = ">" -> PyLt(val, g)
          [] cmp.op = "<" -> PyLt(g, val)

\* An evaluation's outcome: how it ended, the IDs returned, and the calls of
\* _apply_cmp made, in order, each with the candidates it was given.
Eval(status, ids, trace) == [status |-> status, ids |-> ids, trace |-> trace]

Leaf(cmp, cand) == <<[cmp |-> cmp, cand |-> cand]>>

\* The fallback scan without out.sort(): matches in candidate order.
RECURSIVE scan_unsorted(_, _, _, _)
scan_unsorted(evs, cmp, cand, out) ==
    IF cand = <<>> THEN Eval("ok", out, <<>>)
    ELSE LET e == evs[Head(cand) + 1]
         IN  IF PredRaises(cmp, e) THEN Eval("TypeError", <<>>, <<>>)
             ELSE scan_unsorted(evs, cmp, Tail(cand),
                                IF Pred(cmp, e) THEN Append(out, Head(cand)) ELSE out)

\* The fallback scan: the candidates satisfying the predicate, in candidate
\* order; it stops with TypeError at the first record the predicate raises on.
RECURSIVE scan(_, _, _, _)
scan(evs, cmp, cand, out) ==
    IF cand = <<>> THEN Eval("ok", sorted(out), <<>>)
    ELSE LET e == evs[Head(cand) + 1]
         IN  IF PredRaises(cmp, e) THEN Eval("TypeError", <<>>, <<>>)
             ELSE scan(evs, cmp, Tail(cand),
                       IF Pred(cmp, e) THEN Append(out, Head(cand)) ELSE out)

_apply_cmp(evs, ix, cmp, candidate_ids) ==
    LET field == Lower(cmp.field)
        op == cmp.op
    IN  IF op = "==" /\ field \in {"country", "disaster_type"}
        THEN LET ids == IF field = "country"
                        THEN Get(ix.by_country, Str(cmp.value))
                        ELSE Get(ix.by_type, Str(cmp.value))
             IN  Eval("ok", intersect_sorted(sorted(candidate_ids), ids), <<>>)
        ELSE IF field \in {"start_year", "year"} /\ op = "=="
        THEN IF ~IntDefined(cmp.value) THEN Eval("ValueError", <<>>, <<>>)
             ELSE Eval("ok", intersect_sorted(sorted(candidate_ids),
                                              Get(ix.year_to_ids, cmp.value.n)), <<>>)
        ELSE IF field \in {"start_year", "year"} /\ op \in {">=", ">", "<=", "<"}
        THEN LET years == ix.years_sorted
             IN  IF years = <<>> THEN Eval("ok", <<>>, <<>>)
                 ELSE IF ~IntDefined(cmp.value) THEN Eval("ValueError", <<>>, <<>>)
                 ELSE LET v == cmp.value.n
                          lo == CASE op = ">=" -> v
                                  [] op = ">" -> v + 1
                                  [] OTHER -> years[1]
                          hi == CASE op = "<=" -> v
                                  [] op = "<" -> v - 1
                                  [] OTHER -> years[Len(years)]
                      IN  Eval("ok", intersect_sorted(sorted(candidate_ids),
                                                       year_range_ids(ix, lo, hi)), <<>>)
        ELSE scan(evs, cmp, candidate_ids, <<>>)

\* _union_sorted: the two-pointer merge, then the removal of repeats.
RECURSIVE union_loop(_, _, _, _, _)
union_loop(a, b, i, j, out) ==
    IF i < Len(a) /\ j < Len(b)
    THEN IF a[i + 1] = b[j + 1]
         THEN union_loop(a, b, i + 1, j + 1, Append(out, a[i + 1]))
         ELSE IF a[i + 1] < b[j + 1]
              THEN union_loop(a, b, i + 1, j, Append(out, a[i + 1]))
              ELSE union_loop(a, b, i, j + 1, Append(out, b[j + 1]))
    ELSE out \o Slice(a, i, Len(a)) \o Slice(b, j, Len(b))

RECURSIVE uniq(_, _)
uniq(out, k) ==
    IF k > Len(out) THEN <<>>
    ELSE IF k > 1 /\ out[k - 1] = out[k] THEN uniq(out, k + 1)
    ELSE <<out[k]>> \o uniq(out, k + 1)

\* The merge loop without out.extend(b[j:]): what is left of the right list
\* when the left one is exhausted is dropped.
RECURSIVE union_loop_no_right_tail(_, _, _, _, _)
union_loop_no_right_tail(a, b, i, j, out) ==
    IF i < Len(a) /\ j < Len(b)
    THEN IF a[i + 1] = b[j + 1]
         THEN union_loop_no_right_tail(a, b, i + 1, j + 1, Append(out, a[i + 1]))
         ELSE IF a[i + 1] < b[j + 1]
              THEN union_loop_no_right_tail(a, b, i + 1, j, Append(out, a[i + 1]))
              ELSE union_loop_no_right_tail(a, b, i, j + 1, Append(out, b[j + 1]))
    ELSE out \o Slice(a, i, Len(a))

union_without_right_tail(left_ids, right_ids) ==
    uniq(union_loop_no_right_tail(sorted(left_ids), sorted(right_ids), 0, 0, <<>>), 1)

\* _union_sorted merging its arguments as given, without sorting them first.
union_of_unsorted(left_ids, right_ids) ==
    uniq(union_loop(left_ids, right_ids, 0, 0, <<>>), 1)

\* A union that appends the right operand's IDs to the left operand's.
union_appends(left_ids, right_ids) == sorted(left_ids) \o sorted(right_ids)

_union_sorted(left_ids, right_ids) ==
    uniq(union_loop(sorted(left_ids), sorted(right_ids), 0, 0, <<>>), 1)

\* And evaluating its right operand against the original candidates.
AndRightOriginal(candidate_ids, left_ids) == candidate_ids

\* The candidates And hands to its right operand.
AndRightCand(candidate_ids, left_ids) == left_ids

RECURSIVE _eval_node(_, _, _, _)
_eval_node(evs, ix, node, candidate_ids) ==
    CASE node.kind = "And" ->
            LET l == _eval_node(evs, ix, node.left, candidate_ids)
            IN  IF l.status # "ok" THEN l
                ELSE LET r == _eval_node(evs, ix, node.right,
                                         AndRightCand(candidate_ids, l.ids))
                     IN  Eval(r.status, r.ids, l.trace \o r.trace)
      [] node.kind = "Or" ->
            LET l == _eval_node(evs, ix, node.left, candidate_ids)
            IN  IF l.status # "ok" THEN l
                ELSE LET r == _eval_node(evs, ix, node.right, candidate_ids)
                     IN  IF r.status # "ok" THEN Eval(r.status, <<>>, l.trace \o r.trace)
                         ELSE Eval("ok", _union_sorted(l.ids, r.ids), l.trace \o r.trace)
      [] node.kind = "Cmp" ->
            LET r == _apply_cmp(evs, ix, node, candidate_ids)
            IN  Eval(r.status, r.ids, Leaf(node, candidate_ids))
      [] OTHER -> Eval("ValueError", <<>>, <<>>)

(* ----------------------- engine.py: sort and top-k --------------------- *)

\* _field_key: which key a field name selects; "ValueError" when it raises.
KeyKind(field) ==
    LET f == Lower(field)
    IN  CASE f \in {"deaths", "total_deaths"} -> "deaths"
          [] f \in {"affected", "total_affected"} -> "affected"
          [] f \in {"damage", "damages", "total_damage", "total_damage_adj_usd"} -> "damage"
          [] f \in {"year", "start_year"} -> "year"
          [] f \in {"date", "start_date"} -> "date"
          [] OTHER -> "ValueError"

\* The key function _field_key returns, applied to record e.
_field_key(kind, e) ==
    CASE kind = "deaths" -> OrSentinel(e.total_deaths).n
      [] kind = "affected" -> OrSentinel(e.total_affected).n
      [] kind = "damage" -> OrSentinel(e.total_damage_adj_usd).n
      [] kind = "year" -> e.start_year
      [] OTHER -> start_date_key(e)

_events_from_ids(evs, ids) == [i \in 1..Len(ids) |-> evs[ids[i] + 1]]

EventIds(arr) == [i \in 1..Len(arr) |-> arr[i].event_id]

\* Tuples (v, eid) in Python's order.
TupleLt(x, y) == x[1] < y[1] \/ (x[1] = y[1] /\ x[2] < y[2])

\* heap[0] of a heapq heap: its least tuple.
HeapMin(heap) == CHOOSE x \in heap : \A y \in heap : x = y \/ TupleLt(x, y)

\* heap.sort(reverse=True)
RECURSIVE SortedDesc(_)
SortedDesc(heap) ==
    IF heap = {} THEN <<>>
    ELSE LET m == CHOOSE x \in heap : \A y \in heap : x = y \/ TupleLt(y, x)
         IN  <<m>> \o SortedDesc(heap \ {m})

\* The loop of topk replacing the minimum of a full heap by a key that is
\* greater or equal.
RECURSIVE topk_loop_replaces_ties(_, _, _, _, _)
topk_loop_replaces_ties(evs, ids, k, kind, heap) ==
    IF ids = <<>> THEN [status |-> "ok", heap |-> heap]
    ELSE LET eid == Head(ids)
             v == _field_key(kind, evs[eid + 1])
         IN  IF Cardinality(heap) < k
             THEN topk_loop_replaces_ties(evs, Tail(ids), k, kind, heap \cup {<<v, eid>>})
             ELSE IF heap = {} THEN [status |-> "IndexError", heap |-> heap]
             ELSE IF v >= HeapMin(heap)[1]
                  THEN topk_loop_replaces_ties(evs, Tail(ids), k, kind,
                                               (heap \ {HeapMin(heap)}) \cup {<<v, eid>>})
                  ELSE topk_loop_replaces_ties(evs, Tail(ids), k, kind, heap)

\* The loop of topk over the selection; the heap is the set of its tuples.
\* heap[0] on an empty heap raises IndexError.  The key v is never None
\* (_field_key returns the sentinel for an absent value), so the loop's
\*  if v is None: continue  never fires.
RECURSIVE topk_loop(_, _, _, _, _)
topk_loop(evs, ids, k, kind, heap) ==
    IF ids = <<>> THEN [status |-> "ok", heap |-> heap]
    ELSE LET eid == Head(ids)
             v == _field_key(kind, evs[eid + 1])
         IN  IF Cardinality(heap) < k
             THEN topk_loop(evs, Tail(ids), k, kind, heap \cup {<<v, eid>>})
             ELSE IF heap = {} THEN [status |-> "IndexError", heap |-> heap]
             ELSE IF v > HeapMin(heap)[1]
                  THEN topk_loop(evs, Tail(ids), k, kind,
                                 (heap \ {HeapMin(heap)}) \cup {<<v, eid>>})
                  ELSE topk_loop(evs, Tail(ids), k, kind, heap)

\* The event_ids of the records topk returns, in order.
topk_ids(heap) == [i \in 1..Len(SortedDesc(heap)) |-> SortedDesc(heap)[i][2]]

(* ------------------------- engine.py: history -------------------------- *)

\* What the last call did: its name, how it ended, and what it returned
\* (retb: the boolean of undo / redo; out: the event_ids of the records of
\* sort / topk, in order).
Call(op, status, retb, out) == [op |-> op, status |-> status, retb |-> retb, out |-> out]

\* QueryState.last_sort = None
NoSort == <<>>

\* History of the last calls, for the round trip  operation; undo; redo:
\* n = 1 right after a successful mutating operation that turned list S into
\* list T, n = 2 after an undo() that follows it at once, n = 3 after a
\* redo() that follows that undo() at once, n = 4 after a redo() that follows
\* the operation itself at once, n = 0 otherwise; dropped is the number of
\* redo snapshots the operation found on the redo stack.
NoChain == [n |-> 0, S |-> <<>>, T |-> <<>>, dropped |-> 0]

ChainStart(S, T) == [n |-> 1, S |-> S, T |-> T, dropped |-> Len(_redo)]

ChainUndo == IF chain.n = 1 THEN [chain EXCEPT !.n = 2] ELSE NoChain

ChainRedo ==
    IF chain.n = 2 THEN [chain EXCEPT !.n = 3]
    ELSE IF chain.n = 1 THEN [chain EXCEPT !.n = 4]
    ELSE NoChain

\* The last direct call of a function of the engine, outside a session:
\* its name, its arguments and its result.
NoProbe == [fn |-> "none"]

\* ODIE(events, build_indices(events)) with __post_init__.
Init ==
    /\ events \in FixtureDatasets
    /\ idx = build_indices(events)
    /\ active_ids = ListRange(Len(events))
    /\ last_sort = NoSort
    /\ _undo = <<>>
    /\ _redo = <<>>
    /\ call = Call("init", "ok", FALSE, <<>>)
    /\ chain = NoChain
    /\ probe = NoProbe

\* _push_history: the undo stack and the redo stack it leaves behind.
push_history_undo == Append(_undo, active_ids)

\* _push_history without self._redo.clear()
push_history_keeps_redo == _redo

push_history_redo == <<>>

\* list.pop(): the last element, and the list without it.
Top(stk) == stk[Len(stk)]

Pop(stk) == SubSeq(stk, 1, Len(stk) - 1)

\* undo with its two statements in the wrong order: the snapshot saved for
\* redo is the restored list, not the list that was current.
undo_saves_restored ==
    IF _undo = <<>>
    THEN /\ call' = Call("undo", "ok", FALSE, <<>>)
         /\ chain' = ChainUndo
         /\ UNCHANGED <<events, idx, probe, active_ids, last_sort, _undo, _redo>>
    ELSE /\ active_ids' = Top(_undo)
         /\ _redo' = Append(_redo, active_ids')
         /\ _undo' = Pop(_undo)
         /\ call' = Call("undo", "ok", TRUE, <<>>)
         /\ chain' = ChainUndo
         /\ UNCHANGED <<events, idx, probe, last_sort>>

\* undo without self._redo.append(self.state.active_ids[:])
undo_forgets_current ==
    IF _undo = <<>>
    THEN /\ call' = Call("undo", "ok", FALSE, <<>>)
         /\ chain' = ChainUndo
         /\ UNCHANGED <<events, idx, probe, active_ids, last_sort, _undo, _redo>>
    ELSE /\ active_ids' = Top(_undo)
         /\ _undo' = Pop(_undo)
         /\ call' = Call("undo", "ok", TRUE, <<>>)
         /\ chain' = ChainUndo
         /\ UNCHANGED <<events, idx, probe, last_sort, _redo>>

undo ==
    IF _undo = <<>>
    THEN /\ call' = Call("undo", "ok", FALSE, <<>>)
         /\ chain' = ChainUndo
         /\ UNCHANGED <<events, idx, probe, active_ids, last_sort, _undo, _redo>>
    ELSE /\ _redo' = Append(_redo, active_ids)
         /\ active_ids' = Top(_undo)
         /\ _undo' = Pop(_undo)
         /\ call' = Call("undo", "ok", TRUE, <<>>)
         /\ chain' = ChainUndo
         /\ UNCHANGED <<events, idx, probe, last_sort>>

\* redo that pops without looking: list.pop() on an empty list raises.
redo_pops_blindly ==
    IF _redo = <<>>
    THEN /\ _undo' = Append(_undo, active_ids)
         /\ call' = Call("redo", "IndexError", FALSE, <<>>)
         /\ chain' = ChainRedo
         /\ UNCHANGED <<events, idx, probe, active_ids, last_sort, _redo>>
    ELSE /\ _undo' = Append(_undo, active_ids)
         /\ active_ids' = Top(_redo)
         /\ _redo' = Pop(_redo)
         /\ call' = Call("redo", "ok", TRUE, <<>>)
         /\ chain' = ChainRedo
         /\ UNCHANGED <<events, idx, probe, last_sort>>

redo ==
    IF _redo = <<>>
    THEN /\ call' = Call("redo", "ok", FALSE, <<>>)
         /\ chain' = ChainRedo
         /\ UNCHANGED <<events, idx, probe, active_ids, last_sort, _undo, _redo>>
    ELSE /\ _undo' = Append(_undo, active_ids)
         /\ active_ids' = Top(_redo)
         /\ _redo' = Pop(_redo)
         /\ call' = Call("redo", "ok", TRUE, <<>>)
         /\ chain' = ChainRedo
         /\ UNCHANGED <<events, idx, probe, last_sort>>

(* ------------------------- engine.py: filters -------------------------- *)

\* The arguments the filters are called with: known and unknown values.
CountryArgs == {"A", "B", "Z"}

TypeArgs == {"F", "Q", "Z"}

YearArgs == {2000, 2002}

\* The undo stack is capped so that the model is finite; a session that
\* only applies filters may push one snapshot more, so that the three
\* filters compose.
CanPush == Len(_undo) < (IF probe = NoProbe THEN MaxHist ELSE MaxHist + 1)

\* reset without self._push_history()
reset_without_history ==
    /\ CanPush
    /\ active_ids' = ListRange(Len(events))
    /\ last_sort' = NoSort
    /\ call' = Call("reset", "ok", FALSE, <<>>)
    /\ chain' = ChainStart(active_ids, active_ids')
    /\ UNCHANGED <<events, idx, probe, _undo, _redo>>

reset ==
    /\ CanPush
    /\ _undo' = push_history_undo
    /\ _redo' = push_history_redo
    /\ active_ids' = ListRange(Len(events))
    /\ last_sort' = NoSort
    /\ call' = Call("reset", "ok", FALSE, <<>>)
    /\ chain' = ChainStart(active_ids, active_ids')
    /\ UNCHANGED <<events, idx, probe>>

\* filter_country that treats a country without a bucket as "no filter".
filter_country_skips_unknown(country) ==
    /\ CanPush
    /\ _undo' = push_history_undo
    /\ _redo' = push_history_redo
    /\ active_ids' = IF country \in DOMAIN idx.by_country
                     THEN intersect_sorted(sorted(active_ids), idx.by_country[country])
                     ELSE active_ids
    /\ call' = Call("filter_country", "ok", FALSE, <<>>)
    /\ chain' = ChainStart(active_ids, active_ids')
    /\ UNCHANGED <<events, idx, probe, last_sort>>

filter_country(country) ==
    /\ CanPush
    /\ _undo' = push_history_undo
    /\ _redo' = push_history_redo
    /\ active_ids' = intersect_sorted(sorted(active_ids), Get(idx.by_country, country))
    /\ call' = Call("filter_country", "ok", FALSE, <<>>)
    /\ chain' = ChainStart(active_ids, active_ids')
    /\ UNCHANGED <<events, idx, probe, last_sort>>

\* filter_type that replaces the selection by the bucket of the type.
filter_type_from_index(dtype) ==
    /\ CanPush
    /\ _undo' = push_history_undo
    /\ _redo' = push_history_redo
    /\ active_ids' = Get(idx.by_type, dtype)
    /\ call' = Call("filter_type", "ok", FALSE, <<>>)
    /\ chain' = ChainStart(active_ids, active_ids')
    /\ UNCHANGED <<events, idx, probe, last_sort>>

filter_type(dtype) ==
    /\ CanPush
    /\ _undo' = push_history_undo
    /\ _redo' = push_history_redo
    /\ active_ids' = intersect_sorted(sorted(active_ids), Get(idx.by_type, dtype))
    /\ call' = Call("filter_type", "ok", FALSE, <<>>)
    /\ chain' = ChainStart(active_ids, active_ids')
    /\ UNCHANGED <<events, idx, probe, last_sort>>

\* filter_year_range that replaces the selection by the IDs of the range.
filter_year_range_from_index(y1, y2) ==
    /\ CanPush
    /\ _undo' = push_history_undo
    /\ _redo' = push_history_redo
    /\ active_ids' = year_range_ids(idx, y1, y2)
    /\ call' = Call("filter_year_range", "ok", FALSE, <<>>)
    /\ chain' = ChainStart(active_ids, active_ids')
    /\ UNCHANGED <<events, idx, probe, last_sort>>

filter_year_range(y1, y2) ==
    /\ CanPush
    /\ _undo' = push_history_undo
    /\ _redo' = push_history_redo
    /\ active_ids' = intersect_sorted(sorted(active_ids), year_range_ids(idx, y1, y2))
    /\ call' = Call("filter_year_range", "ok", FALSE, <<>>)
    /\ chain' = ChainStart(active_ids, active_ids')
    /\ UNCHANGED <<events, idx, probe, last_sort>>

\* Lexemes
Id(x) == Tok("IDENT", x, 0)

Op(x) == Tok("OP", x, 0)

Num(n) == Tok("NUMBER", "", n)

Lit(x) == Tok("STRING", x, 0)

Kw(x) == Tok("KW", x, 0)

LParen == Tok("LPAREN", "(", 0)

RParen == Tok("RPAREN", ")", 0)

Bad == Tok("BAD", "", 0)

\* The expressions where is called with: well-formed ones on indexed and on
\* scanned fields, and malformed ones.
WhereExprs ==
    { <<Id("country"), Op("=="), Lit("A")>>,
      <<Id("Year"), Op(">="), Num(2001)>>,
      <<Id("start_month"), Op(">"), Num(3)>>,
      <<Id("country"), Op("=="), Lit("B"), Kw("and"), Id("start_month"), Op(">"), Num(3)>>,
      <<Id("type"), Op("=="), Id("F"), Kw("OR"), Id("year"), Op("<"), Num(2001)>>,
      <<LParen, Id("country"), Kw("contains"), Lit("b"), RParen>>,
      <<Id("year"), Op(">=")>>,
      <<LParen, Id("year"), Op("=="), Num(2001)>>,
      <<Id("year"), Op("=="), Num(2001), RParen>>,
      <<Id("year"), Bad, Num(2001)>> }

\* where that assigns the selection whatever the outcome: an error leaves the
\* empty list in place.
where_assigns_always(expr) ==
    LET ast == parse(expr)
        r == IF ast.err THEN Eval("ParseError", <<>>, <<>>)
             ELSE _eval_node(events, idx, ast.node, active_ids)
    IN  /\ CanPush
        /\ _undo' = push_history_undo
        /\ _redo' = push_history_redo
        /\ active_ids' = r.ids
        /\ call' = Call("where", r.status, FALSE, <<>>)
        /\ chain' = IF r.status = "ok" THEN ChainStart(active_ids, active_ids') ELSE NoChain
        /\ UNCHANGED <<events, idx, probe, last_sort>>

\* where: the history is pushed first; a ParseError of parse, or an error
\* of the evaluation, leaves the method before active_ids is assigned.
where(expr) ==
    LET ast == parse(expr)
        r == IF ast.err THEN Eval("ParseError", <<>>, <<>>)
             ELSE _eval_node(events, idx, ast.node, active_ids)
    IN  /\ CanPush
        /\ _undo' = push_history_undo
        /\ _redo' = push_history_redo
        /\ active_ids' = IF r.status = "ok" THEN r.ids ELSE active_ids
        /\ call' = Call("where", r.status, FALSE, <<>>)
        /\ chain' = IF r.status = "ok" THEN ChainStart(active_ids, active_ids') ELSE NoChain
        /\ UNCHANGED <<events, idx, probe, last_sort>>

(* ------------------------ engine.py: read-only calls ------------------- *)

\* The arguments sort is called with: both algorithms, both directions, an
\* unknown field and an unknown algorithm.
SortArgs ==
    { <<"deaths", "merge", TRUE>>, <<"deaths", "quick", FALSE>>,
      <<"bogus", "merge", TRUE>>, <<"deaths", "bogus", TRUE>> }

\* The arguments topk is called with: no and MaxK records asked for, and an
\* unknown field.
TopkArgs == { <<0, "deaths">>, <<MaxK, "deaths">>, <<1, "bogus">> }

\* sort that stores the sorted order as the selection.
sort_reorders_selection(field, algo, reverse) ==
    LET kind == KeyKind(field)
        arr == _events_from_ids(events, active_ids)
        key == [e \in Range(arr) |-> _field_key(kind, e)]
        raises == kind = "ValueError" \/ algo \notin {"merge", "quick"}
        out == IF algo = "merge" THEN merge_sort(arr, key, reverse)
               ELSE quick_sort(arr, key, reverse)
    IN  /\ call' = IF raises THEN Call("sort", "ValueError", FALSE, <<>>)
                   ELSE Call("sort", "ok", FALSE, EventIds(out))
        /\ last_sort' = IF raises THEN last_sort ELSE <<field, algo, reverse>>
        /\ active_ids' = IF raises THEN active_ids ELSE EventIds(out)
        /\ chain' = NoChain
        /\ UNCHANGED <<events, idx, probe, _undo, _redo>>

sort(field, algo, reverse) ==
    LET kind == KeyKind(field)
        arr == _events_from_ids(events, active_ids)
        key == [e \in Range(arr) |-> _field_key(kind, e)]
        raises == kind = "ValueError" \/ algo \notin {"merge", "quick"}
        out == IF algo = "merge" THEN merge_sort(arr, key, reverse)
               ELSE quick_sort(arr, key, reverse)
    IN  /\ call' = IF raises THEN Call("sort", "ValueError", FALSE, <<>>)
                   ELSE Call("sort", "ok", FALSE, EventIds(out))
        /\ last_sort' = IF raises THEN last_sort ELSE <<field, algo, reverse>>
        /\ chain' = NoChain
        /\ UNCHANGED <<events, idx, probe, active_ids, _undo, _redo>>

topk(k, field) ==
    LET kind == KeyKind(field)
        r == topk_loop(events, active_ids, k, kind, {})
    IN  /\ call' = IF kind = "ValueError" THEN Call("topk", "ValueError", FALSE, <<>>)
                   ELSE IF r.status # "ok" THEN Call("topk", r.status, FALSE, <<>>)
                   ELSE Call("topk", "ok", FALSE, topk_ids(r.heap))
        /\ chain' = NoChain
        /\ UNCHANGED <<events, idx, probe, active_ids, last_sort, _undo, _redo>>

(* --------------------------- the engine's runs ------------------------- *)

Next ==
    \/ undo
    \/ redo
    \/ reset
    \/ \E c \in CountryArgs : filter_country(c)
    \/ \E t \in TypeArgs : filter_type(t)
    \/ \E y1, y2 \in YearArgs : filter_year_range(y1, y2)
    \/ \E expr \in WhereExprs : where(expr)
    \/ \E a \in SortArgs : sort(a[1], a[2], a[3])
    \/ \E a \in TopkArgs : topk(a[1], a[2])

Spec == Init /\ [][Next]_vars

(* ------------------- properties of the history engine ------------------ *)

MutatingOps == {"reset", "filter_country", "filter_type", "filter_year_range", "where"}

\* C1: undo/redo round trip.  After a successful mutating operation that
\* turned the current ID list S into T, an undo() that follows at once
\* returns True and leaves the current list equal to S, and a redo() that
\* follows that undo() at once returns True and leaves it equal to T.
C1_UndoRedoRoundTrip ==
    /\ chain.n = 2 => (call.op = "undo" /\ call.retb /\ active_ids = chain.S)
    /\ chain.n = 3 => (call.op = "redo" /\ call.retb /\ active_ids = chain.T)

\* A filter narrowed the selection, undo() restored it and redo() narrowed it again.
C1_Witness ==
    /\ chain.n = 3
    /\ call.op = "redo"
    /\ Len(chain.T) < Len(chain.S)
    /\ chain.T # <<>>

\* C2: a where() whose expression fails to parse raises ParseError and leaves
\* the current ID list exactly as it was before the call.
C2_ParseErrorKeepsSelection ==
    [][(call'.op = "where" /\ call'.status = "ParseError") => active_ids' = active_ids]_vars

\* A where() failed to parse on a selection narrowed before it.
C2_Witness ==
    /\ call.op = "where"
    /\ call.status = "ParseError"
    /\ active_ids # <<>>
    /\ Len(active_ids) < Len(events)

\* C3: a where() whose expression fails to parse leaves the undo stack and
\* the redo stack identical to what they were before the call.
C3_ParseErrorKeepsHistory ==
    [][(call'.op = "where" /\ call'.status = "ParseError")
         => (_undo' = _undo /\ _redo' = _redo)]_vars

\* C4: a successful mutating operation started with current list S, undo
\* stack U and redo stack R ends with undo stack U followed by S and an empty
\* redo stack; a redo() right after it returns False.
C4_MutationPushesAndClears ==
    [][/\ (call'.op \in MutatingOps /\ call'.status = "ok")
            => (_undo' = Append(_undo, active_ids) /\ _redo' = <<>>)
       /\ (call.op \in MutatingOps /\ call.status = "ok" /\ call'.op = "redo")
            => ~call'.retb]_vars

\* A redo() returned False right after a mutating operation that had found
\* snapshots on the redo stack.
C4_Witness ==
    /\ chain.n = 4
    /\ chain.dropped > 0
    /\ call.op = "redo"
    /\ ~call.retb
    /\ _redo = <<>>
    /\ _undo # <<>>
    /\ active_ids = chain.T

\* C5: undo() / redo() never raise.  On an empty stack they return False and
\* change neither the current list nor the stacks; otherwise they return
\* True, push a copy of the current list on the other stack and make the
\* popped snapshot current.
C5_UndoRedoSteps ==
    [][/\ call'.op \in {"undo", "redo"} => call'.status = "ok"
       /\ (call'.op = "undo" /\ _undo = <<>>)
            => (~call'.retb /\ UNCHANGED <<active_ids, _undo, _redo>>)
       /\ (call'.op = "undo" /\ _undo # <<>>)
            => /\ call'.retb
               /\ _redo' = Append(_redo, active_ids)
               /\ active_ids' = Top(_undo)
               /\ _undo' = Pop(_undo)
       /\ (call'.op = "redo" /\ _redo = <<>>)
            => (~call'.retb /\ UNCHANGED <<active_ids, _undo, _redo>>)
       /\ (call'.op = "redo" /\ _redo # <<>>)
            => /\ call'.retb
               /\ _undo' = Append(_undo, active_ids)
               /\ active_ids' = Top(_redo)
               /\ _redo' = Pop(_redo)]_vars

\* A redo() found the redo stack empty while the undo stack was not.
C5_Witness ==
    /\ call.op = "redo"
    /\ ~call.retb
    /\ _redo = <<>>
    /\ _undo # <<>>
    /\ active_ids # <<>>

InitEval ==
    /\ events \in Datasets
    /\ idx = build_indices(events)
    /\ active_ids = ListRange(Len(events))
    /\ last_sort = NoSort
    /\ _undo = <<>>
    /\ _redo = <<>>
    /\ call = Call("init", "ok", FALSE, <<>>)
    /\ chain = NoChain
    /\ probe = NoProbe

\* The candidate lists: every duplicate-free list of IDs of the dataset, in
\* any order.
Candidates(n) ==
    UNION { { c \in [1..m -> 0..(n - 1)] : \A i, j \in 1..m : c[i] = c[j] => i = j } :
            m \in 0..n }

\* Comparisons on the indexed categorical fields.
CatLeaves ==
    { Cmp(f, "==", v) : f \in {"country", "Country", "disaster_type"},
                         v \in {StrV("A"), StrV("B"), StrV("F"), StrV("Z")} }

\* Comparisons on the year: literals below, inside, in a gap of and above the
\* years of the pool.
YearLeaves ==
    { Cmp(f, op, IntV(v)) : f \in {"year", "start_year"},
                            op \in {"==", ">=", ">", "<=", "<"},
                            v \in {1999, 2000, 2001, 2002, 2003, 2004} }

\* Comparisons the fallback scan evaluates, on present and absent values.
ScanLeaves ==
    { Cmp(f, op, v) : f \in {"deaths", "start_month", "type"},
                      op \in {"==", "!=", ">=", "<", "contains"},
                      v \in {IntV(6), StrV("F")} }
    \cup { Cmp("year", "!=", IntV(2001)), Cmp("year", "==", StrV("Z")),
           Cmp("year", "<", StrV("Z")), Cmp("nosuch", "==", IntV(6)) }

\* The leaves nested nodes are built from: an index path on a category, one
\* on the year, and scans that may raise on an absent value.
NestLeaves ==
    { Cmp("country", "==", StrV("A")), Cmp("year", ">=", IntV(2001)),
      Cmp("deaths", "<", IntV(15)), Cmp("start_month", ">=", IntV(6)) }

Depth1 ==
    { And(l, r) : l \in NestLeaves, r \in NestLeaves }
    \cup { Or(l, r) : l \in NestLeaves, r \in NestLeaves }

\* Nodes nested twice, to the left and to the right.
DeepLeaves == { Cmp("country", "==", StrV("A")), Cmp("start_month", ">=", IntV(6)) }

Depth2 ==
    { And(n, c) : n \in Depth1, c \in DeepLeaves }
    \cup { Or(c, n) : n \in Depth1, c \in DeepLeaves }

\* The union of two buckets of one index.
BucketUnions ==
    { Or(Cmp("country", "==", StrV("A")), Cmp("country", "==", StrV("B"))),
      Or(Cmp("type", "==", StrV("Q")), Cmp("disaster_type", "==", StrV("F"))) }

NestedNodes == Depth1 \cup Depth2 \cup BucketUnions

\* The optional numeric fields of a record.
OptionalNumeric ==
    {"total_deaths", "total_affected", "total_damage_adj_usd", "start_month",
     "start_day", "end_year", "end_month", "end_day"}

\* Numeric comparisons on the optional numeric fields.
OptionalLeaves ==
    { Cmp(f, op, IntV(6)) : f \in OptionalNumeric,
                            op \in {"==", "!=", ">=", "<=", ">", "<"} }

\* Comparisons on a name that is no attribute of the record.
UnknownLeaves ==
    { Cmp("nosuch", op, v) : op \in Ops, v \in {IntV(6), StrV("n")} }

\* One direct call is made on each engine.
apply_cmp_call(cmp, cand) ==
    /\ probe = NoProbe
    /\ probe' = [fn |-> "_apply_cmp", node |-> cmp, cand |-> cand,
                 res |-> _apply_cmp(events, idx, cmp, cand)]
    /\ UNCHANGED <<events, idx, active_ids, last_sort, _undo, _redo, call, chain>>

eval_node_call(node, cand) ==
    /\ probe = NoProbe
    /\ probe' = [fn |-> "_eval_node", node |-> node, cand |-> cand,
                 res |-> _eval_node(events, idx, node, cand)]
    /\ UNCHANGED <<events, idx, active_ids, last_sort, _undo, _redo, call, chain>>

NextEval ==
    /\ probe = NoProbe
    /\ \/ \E cmp \in CatLeaves \cup YearLeaves \cup ScanLeaves \cup OptionalLeaves \cup UnknownLeaves,
             cand \in Candidates(Len(events)) :
             apply_cmp_call(cmp, cand)
       \/ \E node \in NestedNodes, cand \in Candidates(Len(events)) :
             eval_node_call(node, cand)

SpecEval == InitEval /\ [][NextEval]_vars

(* --------------------- properties of the evaluator ---------------------- *)

StrictlyAscending(ids) == \A i \in 1..(Len(ids) - 1) : ids[i] < ids[i + 1]

IsApplyCmp(fields, ops, type) ==
    /\ probe.fn = "_apply_cmp"
    /\ Lower(probe.node.field) \in fields
    /\ probe.node.op \in ops
    /\ probe.node.value.t = type

\* C7: for every duplicate-free candidate list in any order and every string
\* literal v, country == v (resp. disaster_type == v) evaluated through the
\* index returns without error the list the linear scan of the candidates
\* returns: the candidates whose record has that value, in ascending ID
\* order, hence the empty list for a value without a bucket.
C7_CategoricalIndexIsScan ==
    IsApplyCmp({"country", "disaster_type"}, {"=="}, "str") =>
        /\ probe.res.status = "ok"
        /\ probe.res.ids = scan(events, probe.node, probe.cand, <<>>).ids
        /\ probe.res.ids =
             SortedOfSet({i \in Range(probe.cand) :
                            events[i + 1][Lower(probe.node.field)] = probe.node.value.s})

\* The index path kept two of three candidates given in descending order.
C7_Witness ==
    /\ IsApplyCmp({"country"}, {"=="}, "str")
    /\ Len(probe.cand) = 3
    /\ probe.cand[1] > probe.cand[2]
    /\ probe.cand[2] > probe.cand[3]
    /\ Len(probe.res.ids) = 2

\* start_year op v
YearSat(y, op, v) ==
    CASE op = "==" -> y = v
      [] op = ">=" -> y >= v
      [] op = ">" -> y > v
      [] op = "<=" -> y <= v
      [] op = "<" -> y < v

\* C8: for every candidate list, every integer literal v and every op among
\* ==, >=, >, <=, <, a comparison on year / start_year returns without error
\* the ascending list of the candidates whose start_year satisfies it; over
\* a dataset with no year indexed that list is empty.
C8_YearIndexIsScan ==
    IsApplyCmp({"year", "start_year"}, {"==", ">=", ">", "<=", "<"}, "int") =>
        /\ probe.res.status = "ok"
        /\ probe.res.ids =
             SortedOfSet({i \in Range(probe.cand) :
                            YearSat(events[i + 1].start_year, probe.node.op, probe.node.value.n)})
        /\ idx.years_sorted = <<>> => probe.res.ids = <<>>

\* A bound that is itself a year of the dataset: year <= v kept some of the
\* candidates, given out of order, and rejected others.
C8_Witness ==
    /\ IsApplyCmp({"year", "start_year"}, {"<="}, "int")
    /\ \E i \in Range(probe.cand) : events[i + 1].start_year = probe.node.value.n
    /\ Len(probe.cand) = 3
    /\ probe.cand[1] > probe.cand[2]
    /\ Len(probe.res.ids) = 2

\* C9: for every AST and every duplicate-free candidate list in any order, a
\* list the evaluator returns is strictly ascending (so duplicate-free) and
\* holds only IDs of the candidate list.
C9_EvalSortedSubset ==
    (probe.fn \in {"_eval_node", "_apply_cmp"} /\ probe.res.status = "ok") =>
        /\ StrictlyAscending(probe.res.ids)
        /\ Range(probe.res.ids) \subseteq Range(probe.cand)

\* A scanned comparison under an Or returned several IDs of candidates given
\* in descending order.
C9_Witness ==
    /\ probe.fn = "_eval_node"
    /\ probe.node.kind = "Or"
    /\ probe.node.left.kind = "Cmp"
    /\ probe.node.left.field = "deaths"
    /\ probe.res.status = "ok"
    /\ Len(probe.cand) = 3
    /\ probe.cand[1] > probe.cand[2]
    /\ Len(probe.res.ids) >= 2

\* C10: And(l, r) on candidates C evaluates l on C first; when l raises, r is
\* not evaluated; otherwise r is evaluated on the result of l, never on an ID
\* l rejected, and the outcome is that of r on the result of l.
C10_AndNarrows ==
    (probe.fn = "_eval_node" /\ probe.node.kind = "And") =>
        LET L == _eval_node(events, idx, probe.node.left, probe.cand)
            R == _eval_node(events, idx, probe.node.right, L.ids)
        IN  IF L.status # "ok"
            THEN probe.res.status = L.status /\ probe.res.trace = L.trace
            ELSE /\ probe.res.status = R.status
                 /\ probe.res.ids = R.ids
                 /\ probe.res.trace = L.trace \o R.trace
                 /\ \A k \in (Len(L.trace) + 1)..Len(probe.res.trace) :
                       Range(probe.res.trace[k].cand) \subseteq Range(L.ids)

\* An And whose right operand raises on a candidate the left operand
\* rejected, and which returned.
C10_Witness ==
    /\ probe.fn = "_eval_node"
    /\ probe.node.kind = "And"
    /\ probe.res.status = "ok"
    /\ probe.res.ids # <<>>
    /\ _eval_node(events, idx, probe.node.right, probe.cand).status = "TypeError"

\* C11: Or(l, r) on candidates C evaluates l and then r, each on C itself,
\* and returns the strictly ascending duplicate-free list of the IDs either
\* returned; when one of them raises, so does the Or.
C11_OrUnion ==
    (probe.fn = "_eval_node" /\ probe.node.kind = "Or") =>
        LET L == _eval_node(events, idx, probe.node.left, probe.cand)
            R == _eval_node(events, idx, probe.node.right, probe.cand)
        IN  /\ probe.node.left.kind = "Cmp" => probe.res.trace[1].cand = probe.cand
            /\ IF L.status # "ok" THEN probe.res.status = L.status
               ELSE /\ probe.res.trace = L.trace \o R.trace
                    /\ probe.node.right.kind = "Cmp" =>
                          probe.res.trace[Len(probe.res.trace)].cand = probe.cand
                    /\ IF R.status # "ok" THEN probe.res.status = R.status
                       ELSE /\ probe.res.status = "ok"
                            /\ probe.res.ids = SortedOfSet(Range(L.ids) \cup Range(R.ids))

\* country == 'A' or country == 'B' on every record of a dataset, given out
\* of order: the right bucket holds IDs below and above IDs of the left one.
C11_Witness ==
    /\ probe.fn = "_eval_node"
    /\ probe.node = Or(Cmp("country", "==", StrV("A")), Cmp("country", "==", StrV("B")))
    /\ Len(probe.cand) = 3
    /\ probe.cand[1] > probe.cand[2]
    /\ probe.res.status = "ok"
    /\ Len(probe.res.ids) = 3
    /\ \E i, j, k \in Range(probe.cand) :
          /\ i < j /\ j < k
          /\ events[i + 1].country = "B"
          /\ events[j + 1].country = "A"
          /\ events[k + 1].country = "B"

\* x op v on numbers
NumSat(x, op, v) ==
    CASE op = "==" -> x = v
      [] op = "!=" -> x # v
      [] op = ">=" -> x >= v
      [] op = "<=" -> x <= v
      [] op = ">" -> x > v
      [] op = "<" -> x < v

\* C21: a comparison of an optional numeric field with a numeric literal, by
\* any of ==, !=, >=, <=, >, <, completes without error on candidates that
\* include a record whose field is absent, the absent value counting as a
\* sentinel (-1) below every real value.
C21_MissingNumericNeverRaises ==
    (/\ probe.fn = "_apply_cmp"
     /\ probe.node.field \in OptionalNumeric
     /\ probe.node.op \in {"==", "!=", ">=", "<=", ">", "<"}
     /\ probe.node.value.t = "int") =>
        /\ probe.res.status = "ok"
        /\ probe.res.ids =
             SortedOfSet({i \in Range(probe.cand) :
                            NumSat(OrSentinel(events[i + 1][probe.node.field]).n,
                                   probe.node.op, probe.node.value.n)})

\* C22: a comparison whose field name is no attribute of the record completes
\* without raising, for each of the seven operators and any literal, and
\* yields a selection of the candidates.
C22_UnknownFieldNeverRaises ==
    (probe.fn = "_apply_cmp" /\ probe.node.field = "nosuch") =>
        /\ probe.res.status = "ok"
        /\ Range(probe.res.ids) \subseteq Range(probe.cand)


(* ------------------- further properties of the engine ------------------ *)

\* The step is a mutating operation that returned normally, emptied the
\* current list and recorded history.
EmptiedAndRecorded ==
    /\ call'.status = "ok"
    /\ active_ids' = <<>>
    /\ _undo' = Append(_undo, active_ids)
    /\ _redo' = <<>>

\* No record of the dataset has its start year in [y1, y2].
NoYearIn(y1, y2) ==
    \A i \in 1..Len(idx.years_sorted) :
        ~(y1 <= idx.years_sorted[i] /\ idx.years_sorted[i] <= y2)

\* C23: filter_country / filter_type with a value that has no bucket, and
\* filter_year_range over a range that covers no indexed year (y1 > y2 and
\* the empty dataset included), return normally, set the current list to the
\* empty list and record history like any mutating operation; an undo() right
\* after restores the previous list.
C23_EmptyResultsAreNotErrors ==
    [][/\ call'.op = "filter_country" =>
            \A c \in CountryArgs :
                (filter_country(c) /\ c \notin DOMAIN idx.by_country) => EmptiedAndRecorded
       /\ call'.op = "filter_type" =>
            \A t \in TypeArgs :
                (filter_type(t) /\ t \notin DOMAIN idx.by_type) => EmptiedAndRecorded
       /\ call'.op = "filter_year_range" =>
            \A y1, y2 \in YearArgs :
                (filter_year_range(y1, y2) /\ NoYearIn(y1, y2)) => EmptiedAndRecorded
       /\ (chain.n = 1 /\ chain.T = <<>> /\ call'.op = "undo")
            => (call'.retb /\ active_ids' = chain.S)]_vars

\* filter_country emptied the full list of a non-empty dataset (its argument
\* has no bucket, as every bucket holds an ID of the full list) and pushed
\* that list on the undo stack.
C23_Witness ==
    /\ call.op = "filter_country"
    /\ call.status = "ok"
    /\ chain.n = 1
    /\ chain.S = ListRange(Len(events))
    /\ events # <<>>
    /\ active_ids = <<>>
    /\ _undo # <<>>
    /\ Top(_undo) = chain.S
    /\ _redo = <<>>

\* The list [0, 1, ..., n-1] of a dataset of n records.
IsFullList(ids) ==
    /\ Len(ids) = Len(events)
    /\ \A i \in 1..Len(ids) : ids[i] = i - 1

\* C25: a freshly constructed engine over n records has current list
\* [0, ..., n-1] and empty undo and redo stacks; reset() sets the current
\* list to [0, ..., n-1] after pushing the previous list on the undo stack
\* and clearing the redo stack.
C25_InitialStateAndReset ==
    [][/\ call.op = "init" =>
            (IsFullList(active_ids) /\ _undo = <<>> /\ _redo = <<>>)
       /\ call'.op = "reset" =>
            /\ call'.status = "ok"
            /\ IsFullList(active_ids')
            /\ _undo' = Append(_undo, active_ids)
            /\ _redo' = <<>>]_vars

\* reset() restored the full list of a narrowed selection, pushed the
\* narrowed list and dropped a redo snapshot.
C25_Witness ==
    /\ call.op = "reset"
    /\ chain.n = 1
    /\ chain.dropped > 0
    /\ Len(chain.S) < Len(events)
    /\ Top(_undo) = chain.S
    /\ IsFullList(active_ids)
    /\ _redo = <<>>

\* A selection: strictly ascending (hence duplicate-free) IDs of records.
WellFormed(ids) ==
    /\ StrictlyAscending(ids)
    /\ \A i \in 1..Len(ids) : ids[i] \in 0..(Len(events) - 1)

\* C26: after any sequence of calls (a where() that fails, sort and topk
\* included) the current list and every snapshot on the undo and redo
\* stacks are strictly ascending, duplicate-free lists of IDs in 0..n-1.
C26_SelectionsWellFormed ==
    /\ WellFormed(active_ids)
    /\ \A i \in 1..Len(_undo) : WellFormed(_undo[i])
    /\ \A i \in 1..Len(_redo) : WellFormed(_redo[i])

\* An undo() restored a narrowed selection of several records and pushed a
\* narrower, non-empty one on the redo stack, with a snapshot left on the
\* undo stack.
C26_Witness ==
    /\ call.op = "undo"
    /\ call.retb
    /\ _undo # <<>>
    /\ _redo # <<>>
    /\ Top(_redo) # <<>>
    /\ Len(Top(_redo)) < Len(active_ids)
    /\ Len(active_ids) < Len(events)

Reverse(s) == [i \in 1..Len(s) |-> s[Len(s) + 1 - i]]

\* The selections of the history in the order they were made: the undo
\* stack, the current list, then the redo stack from its top down.
Timeline == _undo \o <<active_ids>> \o Reverse(_redo)

C28_FiltersOnlyNarrow ==
    [][/\ (/\ call'.op \in {"filter_country", "filter_type", "filter_year_range", "where"}
           /\ call'.status = "ok")
            => Range(active_ids') \subseteq Range(active_ids)
       /\ ~(Range(active_ids') \subseteq Range(active_ids))
            => call'.op \in {"reset", "undo", "redo"}]_vars

\* A where() narrowed a selection that an earlier operation had narrowed, to
\* some but not all of its records.
C28_Witness ==
    /\ call.op = "where"
    /\ call.status = "ok"
    /\ chain.n = 1
    /\ Len(chain.S) < Len(events)
    /\ active_ids = chain.T
    /\ active_ids # <<>>
    /\ Range(active_ids) \subseteq Range(chain.S)
    /\ Len(active_ids) < Len(chain.S)

(* ----------------------- sessions of filters only ---------------------- *)

\* An engine constructed over any dataset, on which only filters are called.
InitFilters ==
    /\ events \in Datasets
    /\ idx = build_indices(events)
    /\ active_ids = ListRange(Len(events))
    /\ last_sort = NoSort
    /\ _undo = <<>>
    /\ _redo = <<>>
    /\ call = Call("init", "ok", FALSE, <<>>)
    /\ chain = NoChain
    /\ probe = [fn |-> "filters"]

NextFilters ==
    \/ \E c \in CountryArgs : filter_country(c)
    \/ \E t \in TypeArgs : filter_type(t)
    \/ \E y1, y2 \in YearArgs : filter_year_range(y1, y2)

SpecFilters == InitFilters /\ [][NextFilters]_vars

\* bench.naive: the linear scan over all records.
naive(evs, country, dtype, y1, y2) ==
    LET hits == SelectSeq(evs, LAMBDA e : /\ e.country = country
                                          /\ e.disaster_type = dtype
                                          /\ y1 <= e.start_year
                                          /\ e.start_year <= y2)
    IN  [i \in 1..Len(hits) |-> hits[i].event_id]

\* bench.indexed: the three index lookups intersected.
indexed(ix, country, dtype, y1, y2) ==
    intersect_sorted(intersect_sorted(Get(ix.by_country, country), Get(ix.by_type, dtype)),
                     year_range_ids(ix, y1, y2))

\* The filters applied so far: a country, a type and a year range, each
\* either given or not yet applied ("*", <<>>).
NoFilters == [c |-> "*", t |-> "*", y |-> <<>>]

FilterSets ==
    [c : CountryArgs \cup {"*"}, t : TypeArgs \cup {"*"},
     y : (YearArgs \X YearArgs) \cup {<<>>}]

\* The ascending list of the IDs whose record satisfies the filters of F.
ConjList(F) ==
    SortedOfSet({events[i].event_id : i \in
        {j \in 1..Len(events) :
            /\ F.c = "*" \/ events[j].country = F.c
            /\ F.t = "*" \/ events[j].disaster_type = F.t
            /\ F.y = <<>> \/ (F.y[1] <= events[j].start_year /\ events[j].start_year <= F.y[2])}})

\* C24: starting from the full selection, applying filter_country(c),
\* filter_type(t) and filter_year_range(y1, y2), any subset of them in any
\* order, leaves the current list equal to the ascending list of the IDs
\* whose record has country = c, disaster_type = t and y1 <= start_year <= y2
\* (for the filters applied): the full selection is the list for no filter,
\* each filter turns the list for a set of filters without it into the list
\* for the set with it, and the list for all three is the one the naive scan
\* and the indexed path of bench compute.
C24_FiltersComputeConjunction ==
    [][/\ call.op = "init" =>
            /\ active_ids = ConjList(NoFilters)
            /\ \A c \in CountryArgs, t \in TypeArgs, y1 \in YearArgs, y2 \in YearArgs :
                    /\ naive(events, c, t, y1, y2) = ConjList([c |-> c, t |-> t, y |-> <<y1, y2>>])
                    /\ indexed(idx, c, t, y1, y2) = naive(events, c, t, y1, y2)
       /\ \A F \in FilterSets :
            active_ids = ConjList(F) =>
                /\ (F.c = "*" /\ call'.op = "filter_country") =>
                        \A c \in CountryArgs :
                            filter_country(c) => active_ids' = ConjList([F EXCEPT !.c = c])
                /\ (F.t = "*" /\ call'.op = "filter_type") =>
                        \A t \in TypeArgs :
                            filter_type(t) => active_ids' = ConjList([F EXCEPT !.t = t])
                /\ (F.y = <<>> /\ call'.op = "filter_year_range") =>
                        \A y1, y2 \in YearArgs :
                            filter_year_range(y1, y2) =>
                                active_ids' = ConjList([F EXCEPT !.y = <<y1, y2>>])]_vars

\* Three filters were applied to the full list, the first two narrowing the
\* selection, and left the records that satisfy all three.
C24_Witness ==
    /\ Len(_undo) = 3
    /\ _undo[1] = ListRange(Len(events))
    /\ Len(_undo[1]) > Len(_undo[2])
    /\ Len(_undo[2]) > Len(_undo[3])
    /\ call.op = "filter_year_range"
    /\ active_ids # <<>>
    /\ \E F \in FilterSets :
            /\ F.c # "*" /\ F.t # "*" /\ F.y # <<>>
            /\ active_ids = ConjList(F)
            /\ active_ids = naive(events, F.c, F.t, F.y[1], F.y[2])

(* ------------------ direct calls of the library functions --------------- *)

\* An engine over the empty dataset; the functions called take their inputs
\* as arguments.
InitLib ==
    /\ events = <<>>
    /\ idx = build_indices(events)
    /\ active_ids = ListRange(Len(events))
    /\ last_sort = NoSort
    /\ _undo = <<>>
    /\ _redo = <<>>
    /\ call = Call("init", "ok", FALSE, <<>>)
    /\ chain = NoChain
    /\ probe = NoProbe

\* The lists handed to the sorts: records 1..n in input order (a record is
\* named by its input position), with every assignment of keys to them:
\* empty, single, all keys equal, sorted and reverse-sorted lists included.
SortKeys == 0..2

SortInputs ==
    UNION { { [arr |-> [i \in 1..n |-> i], key |-> k] : k \in [1..n -> SortKeys] } :
            n \in 0..MaxLen }

merge_sort_call(in, reverse) ==
    /\ probe' = [fn |-> "merge_sort", arr |-> in.arr, key |-> in.key, reverse |-> reverse,
                 res |-> merge_sort(in.arr, in.key, reverse)]
    /\ UNCHANGED <<events, idx, active_ids, last_sort, _undo, _redo, call, chain>>

quick_sort_call(in, reverse) ==
    /\ probe' = [fn |-> "quick_sort", arr |-> in.arr, key |-> in.key, reverse |-> reverse,
                 res |-> quick_sort(in.arr, in.key, reverse)]
    /\ UNCHANGED <<events, idx, active_ids, last_sort, _undo, _redo, call, chain>>

\* The record collections handed to build_indices: distinct rows of the pool
\* in any order, with unique event_ids in any order and not always contiguous.
Collections ==
    UNION { { [i \in 1..n |-> DisasterEvent(ids[i], rows[i])] :
                rows \in { f \in [1..n -> RecordPool] : \A i, j \in 1..n : f[i] = f[j] => i = j },
                ids \in { g \in [1..n -> 0..n] : \A i, j \in 1..n : g[i] = g[j] => i = j } } :
            n \in 0..MaxEvents }

\* Strictly ascending lists of IDs below MaxLen.
AscLists == { SortedOfSet(S) : S \in SUBSET (0..(MaxLen - 1)) }

intersect_sorted_call(a, b) ==
    /\ probe' = [fn |-> "intersect_sorted", a |-> a, b |-> b, res |-> intersect_sorted(a, b)]
    /\ UNCHANGED <<events, idx, active_ids, last_sort, _undo, _redo, call, chain>>

\* _union_sorted on duplicate-free lists in any order.
union_sorted_call(a, b) ==
    /\ probe' = [fn |-> "_union_sorted", a |-> a, b |-> b, res |-> _union_sorted(a, b)]
    /\ UNCHANGED <<events, idx, active_ids, last_sort, _undo, _redo, call, chain>>

\* The comparisons parsed expressions are built from.
ParseLeaves ==
    { Cmp("year", ">=", IntV(2000)), Cmp("deaths", ">", IntV(1000)),
      Cmp("country", "contains", StrV("x")) }

ParseDepth1 ==
    { And(l, r) : l \in ParseLeaves, r \in ParseLeaves }
    \cup { Or(l, r) : l \in ParseLeaves, r \in ParseLeaves }

ParseDepth2 ==
    { And(l, r) : l \in ParseLeaves \cup ParseDepth1, r \in ParseLeaves \cup ParseDepth1 }
    \cup { Or(l, r) : l \in ParseLeaves \cup ParseDepth1, r \in ParseLeaves \cup ParseDepth1 }

ParseAsts == ParseLeaves \cup ParseDepth2

\* The lexemes of the expression the grammar generates for an AST, with
\* parentheses only where the grammar needs them: the operands of AND are a
\* term and a factor, those of OR an expression and a term; a factor is a
\* comparison or an expression in parentheses.
RECURSIVE Unparse(_, _)
Unparse(node, ctx) ==
    CASE node.kind = "Cmp" ->
            << Id(node.field),
               IF node.op = "contains" THEN Kw("contains") ELSE Op(node.op),
               IF node.value.t = "int" THEN Num(node.value.n) ELSE Lit(node.value.s) >>
      [] node.kind = "And" ->
            LET body == Unparse(node.left, "term") \o <<Kw("and")>> \o Unparse(node.right, "factor")
            IN  IF ctx = "factor" THEN <<LParen>> \o body \o <<RParen>> ELSE body
      [] node.kind = "Or" ->
            LET body == Unparse(node.left, "expr") \o <<Kw("OR")>> \o Unparse(node.right, "term")
            IN  IF ctx = "expr" THEN body ELSE <<LParen>> \o body \o <<RParen>>

\* An expression of the grammar for an AST: as generated, or the whole of it
\* as one factor in parentheses.
Sentence(ast, wrapped) ==
    IF wrapped THEN <<LParen>> \o Unparse(ast, "expr") \o <<RParen>> ELSE Unparse(ast, "expr")

\* parse on an expression of the grammar.
parse_call(ast, wrapped) ==
    /\ probe' = [fn |-> "parse", ast |-> ast, how |-> "grammar", p |-> 0,
                 expr |-> Sentence(ast, wrapped), res |-> parse(Sentence(ast, wrapped))]
    /\ UNCHANGED <<events, idx, active_ids, last_sort, _undo, _redo, call, chain>>

DeleteAt(s, p) == SubSeq(s, 1, p - 1) \o SubSeq(s, p + 1, Len(s))

\* What is left after a complete expression.
Trailers ==
    << <<Id("x")>>, <<Num(1)>>, <<Lit("x")>>, <<Op("==")>>, <<LParen>>, <<RParen>>,
       <<Id("year"), Op("=="), Num(1)>> >>

\* The ways an expression s of the grammar is broken at position p.
Breaks == {"no_operator", "no_value", "no_rparen", "no_lparen", "trailing", "empty"}

CanBreak(s, how, p) ==
    CASE how = "no_operator" -> p <= Len(s) /\ (s[p].kind = "OP" \/ s[p] = Kw("contains"))
      [] how = "no_value" -> p <= Len(s) /\ s[p].kind \in {"NUMBER", "STRING"}
      [] how = "no_rparen" -> p <= Len(s) /\ s[p].kind = "RPAREN"
      [] how = "no_lparen" -> p <= Len(s) /\ s[p].kind = "LPAREN"
      [] how = "trailing" -> p <= Len(Trailers)
      [] OTHER -> p = 1 /\ Len(s) = 3

Broken(s, how, p) ==
    CASE how = "trailing" -> s \o Trailers[p]
      [] how = "empty" -> <<>>
      [] OTHER -> DeleteAt(s, p)

\* parse on an expression of the grammar broken in one place.
parse_broken_call(ast, how, p) ==
    /\ CanBreak(Unparse(ast, "expr"), how, p)
    /\ probe' = [fn |-> "parse", ast |-> ast, how |-> how, p |-> p,
                 expr |-> Broken(Unparse(ast, "expr"), how, p),
                 res |-> parse(Broken(Unparse(ast, "expr"), how, p))]
    /\ UNCHANGED <<events, idx, active_ids, last_sort, _undo, _redo, call, chain>>

build_indices_call(evs) ==
    /\ probe' = [fn |-> "build_indices", evs |-> evs, res |-> build_indices(evs)]
    /\ UNCHANGED <<events, idx, active_ids, last_sort, _undo, _redo, call, chain>>

NextLib ==
    /\ probe = NoProbe
    /\ \/ \E in \in SortInputs, reverse \in BOOLEAN : merge_sort_call(in, reverse)
       \/ \E in \in SortInputs, reverse \in BOOLEAN : quick_sort_call(in, reverse)
       \/ \E evs \in Collections : build_indices_call(evs)
       \/ \E a \in AscLists, b \in AscLists : intersect_sorted_call(a, b)
       \/ \E a \in Candidates(MaxLen), b \in Candidates(MaxLen) : union_sorted_call(a, b)
       \/ \E ast \in ParseAsts, wrapped \in BOOLEAN : parse_call(ast, wrapped)
       \/ \E ast \in ParseAsts, how \in Breaks :
             \E p \in 1..(Len(Unparse(ast, "expr")) + Len(Trailers)) :
                parse_broken_call(ast, how, p)

SpecLib == InitLib /\ [][NextLib]_vars

(* ------------------- properties of the library functions ---------------- *)

\* C12: merge sort is stable in both directions: with reverse=False and with
\* reverse=True, two records with equal keys appear in the output in the
\* order they have in the input.
C12_MergeSortStable ==
    probe.fn = "merge_sort" =>
        \A i, j \in 1..Len(probe.res) :
            (i < j /\ probe.key[probe.res[i]] = probe.key[probe.res[j]])
                => probe.res[i] < probe.res[j]

\* The ascending half of C12: with reverse=False merge sort is stable.
C12_AscendingStable ==
    (probe.fn = "merge_sort" /\ ~probe.reverse) =>
        \A i, j \in 1..Len(probe.res) :
            (i < j /\ probe.key[probe.res[i]] = probe.key[probe.res[j]])
                => probe.res[i] < probe.res[j]

\* C13: merge_sort and quick_sort return, in both directions, a permutation
\* of the input that is monotonic in the key: non-decreasing when
\* reverse=False, non-increasing when reverse=True.
C13_SortsPermuteAndOrder ==
    probe.fn \in {"merge_sort", "quick_sort"} =>
        /\ Len(probe.res) = Len(probe.arr)
        /\ Range(probe.res) = Range(probe.arr)
        /\ \A i \in 1..(Len(probe.res) - 1) :
              IF probe.reverse
              THEN probe.key[probe.res[i]] >= probe.key[probe.res[i + 1]]
              ELSE probe.key[probe.res[i]] <= probe.key[probe.res[i + 1]]

\* quick_sort reversed a list of MaxLen records given in ascending key
\* order, two of them with equal keys.
C13_Witness ==
    /\ probe.fn = "quick_sort"
    /\ probe.reverse
    /\ Len(probe.arr) = MaxLen
    /\ \A i \in 1..(MaxLen - 1) : probe.key[i] <= probe.key[i + 1]
    /\ probe.key[1] < probe.key[2]
    /\ probe.key[MaxLen - 1] = probe.key[MaxLen]
    /\ probe.res # probe.arr

\* The buckets of one mapping of the indices: each strictly ascending, and
\* each record's event_id in the bucket of the record's own value and in no
\* other.
BucketsCorrect(d, fld, evs) ==
    /\ \A k \in DOMAIN d : StrictlyAscending(d[k])
    /\ \A n \in 1..Len(evs) :
          /\ evs[n][fld] \in DOMAIN d
          /\ \A k \in DOMAIN d : evs[n].event_id \in Range(d[k]) <=> k = evs[n][fld]

\* C16: for every record collection with unique event_ids, the empty one
\* included, every bucket of by_country, by_type and year_to_ids is strictly
\* ascending, every event_id is in exactly one bucket of each mapping, the
\* one keyed by its record's country / disaster_type / start_year, and
\* years_sorted is the strictly ascending list of the keys of year_to_ids.
C16_IndexCorrect ==
    probe.fn = "build_indices" =>
        /\ BucketsCorrect(probe.res.by_country, "country", probe.evs)
        /\ BucketsCorrect(probe.res.by_type, "disaster_type", probe.evs)
        /\ BucketsCorrect(probe.res.year_to_ids, "start_year", probe.evs)
        /\ StrictlyAscending(probe.res.years_sorted)
        /\ Range(probe.res.years_sorted) = DOMAIN probe.res.year_to_ids

\* Three records given with descending event_ids and descending years, the
\* first and the last of one country.
C16_Witness ==
    /\ probe.fn = "build_indices"
    /\ Len(probe.evs) = 3
    /\ probe.evs[1].event_id > probe.evs[2].event_id
    /\ probe.evs[2].event_id > probe.evs[3].event_id
    /\ probe.evs[1].start_year > probe.evs[3].start_year
    /\ probe.evs[1].country = probe.evs[3].country
    /\ probe.evs[1].country # probe.evs[2].country
    /\ Len(probe.res.by_country[probe.evs[1].country]) = 2
    /\ Len(probe.res.years_sorted) >= 2


\* C17: for strictly ascending lists A and B, intersect_sorted(A, B) equals
\* intersect_sorted(B, A), is no longer than the shorter of A and B, and is
\* the strictly ascending list of the IDs present in both.
C17_IntersectLaws ==
    probe.fn = "intersect_sorted" =>
        /\ probe.res = intersect_sorted(probe.b, probe.a)
        /\ Len(probe.res) <= Len(probe.a)
        /\ Len(probe.res) <= Len(probe.b)
        /\ StrictlyAscending(probe.res)
        /\ Range(probe.res) = Range(probe.a) \cap Range(probe.b)

\* Two lists that share some IDs and each hold an ID the other lacks, the
\* least ID of one below the least of the other.
C17_Witness ==
    /\ probe.fn = "intersect_sorted"
    /\ Len(probe.res) = 2
    /\ Len(probe.a) = 3
    /\ Len(probe.b) = 3
    /\ probe.a[1] < probe.b[1]

\* C18: for duplicate-free lists A and B in any order, _union_sorted(A, B) is
\* strictly ascending, its elements are those of A and those of B, and it
\* equals _union_sorted(B, A).
C18_UnionLaws ==
    probe.fn = "_union_sorted" =>
        /\ StrictlyAscending(probe.res)
        /\ Range(probe.res) = Range(probe.a) \cup Range(probe.b)
        /\ probe.res = _union_sorted(probe.b, probe.a)

\* Two overlapping lists, both given out of order.
C18_Witness ==
    /\ probe.fn = "_union_sorted"
    /\ Len(probe.a) = 3
    /\ Len(probe.b) = 2
    /\ probe.a[1] > probe.a[2]
    /\ probe.b[1] > probe.b[2]
    /\ probe.b[1] \in Range(probe.a)
    /\ probe.b[2] \notin Range(probe.a)
    /\ Len(probe.res) = 4


\* Comparisons a, b, c of the examples.
CmpA == Cmp("year", ">=", IntV(2000))

CmpB == Cmp("deaths", ">", IntV(1000))

CmpC == Cmp("country", "contains", StrV("x"))

LexA == <<Id("year"), Op(">="), Num(2000)>>

LexB == <<Id("deaths"), Op(">"), Num(1000)>>

LexC == <<Id("country"), Kw("contains"), Lit("x")>>

\* C19: parse returns, for every expression of the grammar, the AST the
\* expression was generated from: AND binds tighter than OR, both group to
\* the left, and an expression in parentheses is one factor.  In
\* particular a OR b AND c is Or(a, And(b, c)), a AND b AND c is
\* And(And(a, b), c), a OR b OR c is Or(Or(a, b), c), (a OR b) AND c is
\* And(Or(a, b), c), and  year >= 2000 and deaths > 1000  is
\* And(Cmp(year, >=, 2000), Cmp(deaths, >, 1000)).
C19_ParserPrecedence ==
    (probe.fn = "parse" /\ probe.how = "grammar") =>
        /\ ~probe.res.err
        /\ probe.res.node = probe.ast
        /\ probe.expr = LexA \o <<Kw("OR")>> \o LexB \o <<Kw("and")>> \o LexC
              => probe.res.node = Or(CmpA, And(CmpB, CmpC))
        /\ probe.expr = LexA \o <<Kw("and")>> \o LexB \o <<Kw("and")>> \o LexC
              => probe.res.node = And(And(CmpA, CmpB), CmpC)
        /\ probe.expr = LexA \o <<Kw("OR")>> \o LexB \o <<Kw("OR")>> \o LexC
              => probe.res.node = Or(Or(CmpA, CmpB), CmpC)
        /\ probe.expr = <<LParen>> \o LexA \o <<Kw("OR")>> \o LexB \o <<RParen, Kw("and")>> \o LexC
              => probe.res.node = And(Or(CmpA, CmpB), CmpC)
        /\ probe.expr = LexA \o <<Kw("and")>> \o LexB
              => probe.res.node = And(CmpA, CmpB)

\* parse returned And(And(a, b), Or(b, c)) for  a and b and ( b OR c ).
C19_Witness ==
    /\ probe.fn = "parse"
    /\ probe.how = "grammar"
    /\ probe.expr = LexA \o <<Kw("and")>> \o LexB \o <<Kw("and"), LParen>>
                       \o LexB \o <<Kw("OR")>> \o LexC \o <<RParen>>
    /\ probe.res.node = And(And(CmpA, CmpB), Or(CmpB, CmpC))

\* C20: parse fails with ParseError, returning no AST, when a comparison lacks
\* its operator or its value, a parenthesis lacks its match, tokens remain
\* after a complete expression, or the expression is empty; it accepts every
\* expression of the grammar.
C20_ParserRejects ==
    probe.fn = "parse" =>
        IF probe.how = "grammar" THEN ~probe.res.err
        ELSE probe.res = ParseError

\* parse rejected  ( a OR b ) and c  without its closing parenthesis.
C20_Witness ==
    /\ probe.fn = "parse"
    /\ probe.how = "no_rparen"
    /\ probe.expr = <<LParen>> \o LexA \o <<Kw("OR")>> \o LexB \o <<Kw("and")>> \o LexC
    /\ probe.res.err


(* ------------------- quick_sort, one invocation a step ------------------ *)

\* A pending invocation _quick_sort_inplace(a, lo, hi, key, reverse).
Frame(lo, hi) == [lo |-> lo, hi |-> hi]

\* No invocation has partitioned yet.
NoPartition == [lo |-> 0, hi |-> -1, p |-> 0, parts |-> 0]

\* quick_sort(arr, key, reverse) has copied arr into a and is about to make
\* the outermost invocation _quick_sort_inplace(a, 0, len(a) - 1, ...).
InitQuick ==
    /\ events = <<>>
    /\ idx = build_indices(events)
    /\ active_ids = ListRange(Len(events))
    /\ last_sort = NoSort
    /\ _undo = <<>>
    /\ _redo = <<>>
    /\ call = Call("init", "ok", FALSE, <<>>)
    /\ chain = NoChain
    /\ \E in \in SortInputs, reverse \in BOOLEAN :
          probe = [fn |-> "_quick_sort_inplace", arr |-> in.arr, key |-> in.key,
                   reverse |-> reverse, a |-> in.arr,
                   stack |-> <<Frame(0, Len(in.arr) - 1)>>,
                   last |-> NoPartition, returned |-> FALSE]

\* The invocation on top of the call stack runs: it returns at once when
\* lo >= hi; otherwise it partitions a[lo..hi] and makes its two recursive
\* invocations, the left one first.
quick_sort_inplace_step ==
    /\ probe.fn = "_quick_sort_inplace"
    /\ probe.stack # <<>>
    /\ LET f == Top(probe.stack)
       IN  IF f.lo >= f.hi
           THEN probe' = [probe EXCEPT !.stack = Pop(probe.stack)]
           ELSE LET r == _partition(probe.a, f.lo, f.hi, probe.key, probe.reverse)
                IN  probe' = [probe EXCEPT
                                !.a = r.a,
                                !.stack = Pop(probe.stack)
                                            \o <<Frame(r.p + 1, f.hi), Frame(f.lo, r.p - 1)>>,
                                !.last = [lo |-> f.lo, hi |-> f.hi, p |-> r.p,
                                          parts |-> probe.last.parts + 1]]
    /\ UNCHANGED <<events, idx, active_ids, last_sort, _undo, _redo, call, chain>>

\* The outermost invocation has returned: quick_sort returns a.
quick_sort_return ==
    /\ probe.fn = "_quick_sort_inplace"
    /\ probe.stack = <<>>
    /\ ~probe.returned
    /\ probe' = [probe EXCEPT !.returned = TRUE]
    /\ UNCHANGED <<events, idx, active_ids, last_sort, _undo, _redo, call, chain>>

NextQuick ==
    \/ quick_sort_inplace_step
    \/ quick_sort_return

\* The code runs on until it returns.
SpecQuick == InitQuick /\ [][NextQuick]_vars /\ WF_vars(NextQuick)

\* The number of elements of a[lo..hi].
Size(f) == IF f.hi >= f.lo THEN f.hi - f.lo + 1 ELSE 0

\* C29: quick_sort terminates on every finite input, in both directions:
\* every partition of a[lo..hi] returns an index p with lo <= p <= hi, the
\* two recursive invocations are on strictly smaller ranges inside lo..hi,
\* the caller's list is never modified, and the sort returns.
C29_QuickSortTerminates ==
    /\ [][/\ probe'.last # probe.last =>
                LET f == Top(probe.stack)
                    left == probe'.stack[Len(probe'.stack)]
                    right == probe'.stack[Len(probe'.stack) - 1]
                IN  /\ f.lo <= probe'.last.p /\ probe'.last.p <= f.hi
                    /\ left = Frame(f.lo, probe'.last.p - 1)
                    /\ right = Frame(probe'.last.p + 1, f.hi)
                    /\ Size(left) < Size(f)
                    /\ Size(right) < Size(f)
                    /\ Len(probe'.stack) = Len(probe.stack) + 1
          /\ probe'.arr = probe.arr]_vars
    /\ <>(probe.returned)

\* A sort in descending order of four elements has returned after more than
\* one partition, with the copy reordered and the caller's list as it was.
C29_Witness ==
    /\ probe.fn = "_quick_sort_inplace"
    /\ probe.returned
    /\ probe.reverse
    /\ Len(probe.arr) = MaxLen
    /\ probe.last.parts > 1
    /\ probe.a # probe.arr
    /\ probe.arr = [i \in 1..Len(probe.arr) |-> i]

(* --------------------------- direct calls of topk ----------------------- *)

\* Every dataset of at most MaxEvents distinct rows of the fixture, in any
\* order: absent values, and records with equal keys.
TopkDatasets ==
    UNION { { Loaded(rows) : rows \in { f \in [1..n -> Range(Fixture)] :
                                         \A i, j \in 1..n : f[i] = f[j] => i = j } } :
            n \in 0..MaxEvents }

\* The selections filters leave: ascending lists of IDs of the dataset.
Selections(n) == { SortedOfSet(S) : S \in SUBSET (0..(n - 1)) }

\* An engine over a dataset, with a selection narrowed by earlier filters.
InitTopk ==
    /\ events \in TopkDatasets
    /\ idx = build_indices(events)
    /\ active_ids \in Selections(Len(events))
    /\ last_sort = NoSort
    /\ _undo = <<>>
    /\ _redo = <<>>
    /\ call = Call("init", "ok", FALSE, <<>>)
    /\ chain = NoChain
    /\ probe = NoProbe

\* Rank fields with absent values, a field that is never absent, an unknown one.
TopkFields == {"deaths", "Damage", "year", "bogus"}

\* topk(k, field) on the engine, with what it returns.
topk_call(k, field) ==
    LET kind == KeyKind(field)
        r == topk_loop(events, active_ids, k, kind, {})
    IN  /\ probe' = [fn |-> "topk", k |-> k, field |-> field,
                     res |-> IF kind = "ValueError" THEN [status |-> "ValueError", ids |-> <<>>]
                             ELSE IF r.status # "ok" THEN [status |-> r.status, ids |-> <<>>]
                             ELSE [status |-> "ok", ids |-> topk_ids(r.heap)]]
        /\ UNCHANGED <<events, idx, active_ids, last_sort, _undo, _redo, call, chain>>

NextTopk ==
    /\ probe = NoProbe
    /\ \E k \in 0..(MaxK + 1), field \in TopkFields : topk_call(k, field)

SpecTopk == InitTopk /\ [][NextTopk]_vars

(* ------------------------- properties of topk --------------------------- *)

\* The record's value of the rank field a name selects (None when absent).
RankValue(field, e) ==
    CASE KeyKind(field) = "deaths" -> e.total_deaths
      [] KeyKind(field) = "affected" -> e.total_affected
      [] OTHER -> e.total_damage_adj_usd

\* C14: for k >= 1 and a rank field among deaths, affected, damage, a selected
\* record whose value of the field is absent is never in the result of
\* topk(k, field), and the result has min(k, m) records, m being the number
\* of selected records whose value is present.
C14_TopkSkipsMissing ==
    (/\ probe.fn = "topk"
     /\ probe.k >= 1
     /\ KeyKind(probe.field) \in {"deaths", "affected", "damage"}) =>
        LET present == {i \in Range(active_ids) :
                          RankValue(probe.field, events[i + 1]).t # "none"}
            m == Cardinality(present)
        IN  /\ probe.res.status = "ok"
            /\ Range(probe.res.ids) \subseteq present
            /\ Len(probe.res.ids) = IF probe.k < m THEN probe.k ELSE m

\* The heap of topk after the first p records of the selection.
HeapAfter(p) ==
    topk_loop(events, SubSeq(active_ids, 1, p), probe.k, KeyKind(probe.field), {}).heap

C30_TopkZeroIsEmpty ==
    (probe.fn = "topk" /\ probe.k = 0 /\ KeyKind(probe.field) # "ValueError") =>
        (probe.res.status = "ok" /\ probe.res.ids = <<>>)

====
